---- MODULE Spec2Model ----
(***************************************************************************)
(* vispy.gloo.framebuffer: RenderBuffer (and its deprecated subclasses),   *)
(* FrameBuffer, and the GLIR command queue they write to.                  *)
(*                                                                         *)
(* Python values are encoded as records so that values of different        *)
(* Python types can be compared:                                           *)
(*   a shape argument  [t : "tuple" | "None" | "absent", v : Seq(Int)]     *)
(*   a format argument [t : "None" | "int" | "str" | "list" | "absent",    *)
(*                      n : Int, s : STRING]                               *)
(* "absent" is an instance attribute that was never assigned.              *)
(* An object reference is an index into heap; the reference None is 0.     *)
(***************************************************************************)
EXTENDS Integers, Sequences, FiniteSets, TLC

\* limit: the longest queue this exploration lets the program build
\* scope: the with-blocks the client is in, and the activation calls so far
VARIABLES idcount, heap, queue, res, limit, scope

vars == <<idcount, heap, queue, res, limit, scope>>

\* ---------------------------------------------------------------- bounds
\* longest command queue explored when buffers are used on their own
MaxQueueRB == 5
\* commands explored after the FrameBuffer scene is built
MaxExtra == 3
\* longest command queue explored when objects are built and attached
MaxQueueNew == 6
\* commands explored when the arguments of a RenderBuffer are varied
MaxArgCmds == 2
\* deepest nesting of with-blocks, and most activation calls, explored
MaxOpen == 2
MaxCalls == 6

\* ------------------------------------------------------------- constants
GL_RGBA == 6408
GL_DEPTH_COMPONENT16 == 33189
GL_STENCIL_INDEX8 == 36168
GL_COLOR_ATTACHMENT0 == 36064
GL_DEPTH_ATTACHMENT == 36096
GL_STENCIL_ATTACHMENT == 36128

\* ------------------------------------------------------- Python values
None == 0

Tup(v) == [t |-> "tuple", v |-> v]
NoneShape == [t |-> "None", v |-> <<>>]
AbsentShape == [t |-> "absent", v |-> <<>>]

FNone == [t |-> "None", n |-> 0, s |-> ""]
FInt(n) == [t |-> "int", n |-> n, s |-> ""]
FStr(s) == [t |-> "str", n |-> 0, s |-> s]
FAbsent == [t |-> "absent", n |-> 0, s |-> ""]
\* a keyword argument left out of the call
FOmitted == [t |-> "omitted", n |-> 0, s |-> ""]
\* a list that holds one string: neither None nor an int nor a string
FList(s) == [t |-> "list", n |-> 0, s |-> s]

\* ------------------------------------------------------------ commands
Cmd(op, id, kind, shape, format, target, att) ==
    [op |-> op, id |-> id, kind |-> kind, shape |-> shape, format |-> format,
     target |-> target, att |-> att]

CmdCreate(id, kind) == Cmd("CREATE", id, kind, AbsentShape, FAbsent, 0, 0)
CmdSize(id, shape, format) == Cmd("SIZE", id, "", shape, format, 0, 0)
CmdAttach(id, target, att) == Cmd("ATTACH", id, "", AbsentShape, FAbsent, target, att)

\* glir.command(...): append to the context's queue
GlirCommand(q, cmds) == q \o cmds

\* -------------------------------------------------------------- objects
RenderBufferClasses == {"RenderBuffer", "ColorBuffer", "DepthBuffer", "StencilBuffer"}

\* isinstance(o, cls) over the class hierarchy of the module
IsInstance(o, cls) ==
    \/ o.cls = cls
    \/ cls = "RenderBuffer" /\ o.cls \in RenderBufferClasses

\* GLObject.__init__: the object gets its id; an attribute that no __init__
\* has assigned yet is absent (the slots of an object that has none stay None)
GLObject_init(id, cls) ==
    [cls |-> cls, id |-> id, shape |-> AbsentShape, format |-> FAbsent,
     resizeable |-> TRUE, color |-> None, depth |-> None, stencil |-> None]

GLIR_TYPE(cls) ==
    IF cls \in RenderBufferClasses THEN "RenderBuffer" ELSE cls

\* result of a call on an object: the error raised ("ok" when none), the
\* object afterwards, and the commands it sent
Outcome(err, o, cmds) == [err |-> err, o |-> o, cmds |-> cmds]

\* ------------------------------------------------- RenderBuffer.resize
\* the shape check of resize: a tuple of 2 or 3 elements
ShapeOK(shape) == shape.t = "tuple" /\ Len(shape.v) \in {2, 3}

formats ==
    [color |-> GL_RGBA, depth |-> GL_DEPTH_COMPONENT16, stencil |-> GL_STENCIL_INDEX8]

\* the format check of resize: [err, format] with the format to store
CheckFormat(o, format) ==
    IF format.t = "None" THEN
        IF o.format.t = "absent" THEN [err |-> "AttributeError", format |-> format]
        ELSE IF o.format.t = "None"
             THEN [err |-> "MissingFormatError", format |-> format]
             ELSE [err |-> "ok", format |-> o.format]
    ELSE IF format.t = "int" THEN [err |-> "ok", format |-> format]
    ELSE IF format.t = "str" THEN
        IF format.s \in DOMAIN formats
        THEN [err |-> "ok", format |-> FInt(formats[format.s])]
        ELSE [err |-> "InvalidFormatError", format |-> format]
    ELSE [err |-> "ok", format |-> format]

\* the shape resize stores
StoredShape(shape) == shape

\* the shape stored before the format is checked
RenderBuffer_resize_ShapeFirst(o, shape, format) ==
    IF ~o.resizeable THEN Outcome("ImmutableResourceError", o, <<>>)
    ELSE IF ~ShapeOK(shape) THEN Outcome("InvalidShapeError", o, <<>>)
    ELSE LET o1 == [o EXCEPT !.shape = StoredShape(shape)]
             f == CheckFormat(o1, format) IN
         IF f.err # "ok" THEN Outcome(f.err, o1, <<>>)
         ELSE LET o2 == [o1 EXCEPT !.format = f.format]
              IN Outcome("ok", o2, <<CmdSize(o2.id, o2.shape, o2.format)>>)

\* the SIZE command sent with the format as it was given
RenderBuffer_resize_SendsArgument(o, shape, format) ==
    IF ~o.resizeable THEN Outcome("ImmutableResourceError", o, <<>>)
    ELSE IF ~ShapeOK(shape) THEN Outcome("InvalidShapeError", o, <<>>)
    ELSE LET f == CheckFormat(o, format) IN
         IF f.err # "ok" THEN Outcome(f.err, o, <<>>)
         ELSE LET o2 == [o EXCEPT !.shape = StoredShape(shape), !.format = f.format]
              IN Outcome("ok", o2, <<CmdSize(o2.id, shape, format)>>)

RenderBuffer_resize(o, shape, format) ==
    IF ~o.resizeable THEN Outcome("ImmutableResourceError", o, <<>>)
    ELSE IF ~ShapeOK(shape) THEN Outcome("InvalidShapeError", o, <<>>)
    ELSE LET f == CheckFormat(o, format) IN
         IF f.err # "ok" THEN Outcome(f.err, o, <<>>)
         ELSE LET o2 == [o EXCEPT !.shape = StoredShape(shape), !.format = f.format]
              IN Outcome("ok", o2, <<CmdSize(o2.id, o2.shape, o2.format)>>)

\* the shape property
RenderBuffer_shape(o) == o.shape

\* the default of the format parameter of each constructor
DefaultFormat(cls) ==
    CASE cls = "ColorBuffer" -> FInt(GL_RGBA)
      [] cls = "DepthBuffer" -> FInt(GL_DEPTH_COMPONENT16)
      [] cls = "StencilBuffer" -> FInt(GL_STENCIL_INDEX8)
      [] OTHER -> FNone

\* RenderBuffer.__init__ after GLObject.__init__
RenderBuffer_init(id, cls, shape, format, resizeable) ==
    LET o == [GLObject_init(id, cls) EXCEPT !.resizeable = resizeable]
        f == IF format = FOmitted THEN DefaultFormat(cls) ELSE format
    IN RenderBuffer_resize(o, shape, f)

\* ------------------------------------------------------------ Texture2D
Texture_format(o, format) ==
    IF format.t = "None" THEN
        IF o.format.t \in {"absent", "None"}
        THEN [err |-> "MissingFormatError", format |-> format]
        ELSE [err |-> "ok", format |-> o.format]
    ELSE IF format.t = "int" THEN [err |-> "ok", format |-> format]
    ELSE IF format.t = "str" /\ format.s \in DOMAIN formats
         THEN [err |-> "ok", format |-> FInt(formats[format.s])]
         ELSE [err |-> "InvalidFormatError", format |-> format]

Texture_size(o, shape, format) ==
    IF ~ShapeOK(shape) THEN Outcome("InvalidShapeError", o, <<>>)
    ELSE LET f == Texture_format(o, format) IN
         IF f.err # "ok" THEN Outcome(f.err, o, <<>>)
         ELSE LET o2 == [o EXCEPT !.shape = shape, !.format = f.format]
              IN Outcome("ok", o2, <<CmdSize(o2.id, o2.shape, o2.format)>>)

Texture_resize(o, shape, format) ==
    IF ~o.resizeable THEN Outcome("ImmutableResourceError", o, <<>>)
    ELSE Texture_size(o, shape, format)

Texture_init(id, shape, format, resizeable) ==
    LET o == [GLObject_init(id, "Texture2D") EXCEPT !.resizeable = resizeable]
        f == IF format = FOmitted THEN FNone ELSE format
    IN Texture_size(o, shape, f)

\* buffer.resize(shape, format) by the class of the buffer
Buffer_resize(o, shape, format) ==
    IF o.cls = "Texture2D" THEN Texture_resize(o, shape, format)
    ELSE RenderBuffer_resize(o, shape, format)

\* ---------------------------------------------------------- FrameBuffer
\* the reference taken for the id
AttachedRef(h, buffer) == buffer

\* buffer.id if buffer else 0
AttachedId(h, buffer) == IF buffer # None THEN h[buffer].id ELSE 0

\* the isinstance tests of the three setters
ColorAccepts(h, buffer) ==
    buffer = None \/ IsInstance(h[buffer], "ColorBuffer") \/ IsInstance(h[buffer], "Texture2D")

DepthAccepts(h, buffer) ==
    buffer = None \/ IsInstance(h[buffer], "DepthBuffer") \/ IsInstance(h[buffer], "Texture2D")

\* as the error message of the setter reads: a Texture2D is let through
StencilAcceptsTexture(h, buffer) ==
    buffer = None \/ IsInstance(h[buffer], "StencilBuffer") \/ IsInstance(h[buffer], "Texture2D")

StencilAccepts(h, buffer) ==
    buffer = None \/ IsInstance(h[buffer], "StencilBuffer")

color_buffer_set(h, o, buffer) ==
    IF ColorAccepts(h, buffer)
    THEN Outcome("ok", [o EXCEPT !.color = buffer],
                 <<CmdAttach(o.id, GL_COLOR_ATTACHMENT0, AttachedId(h, buffer))>>)
    ELSE Outcome("TypeMismatchError", o, <<>>)

depth_buffer_set(h, o, buffer) ==
    IF DepthAccepts(h, buffer)
    THEN Outcome("ok", [o EXCEPT !.depth = buffer],
                 <<CmdAttach(o.id, GL_DEPTH_ATTACHMENT, AttachedId(h, buffer))>>)
    ELSE Outcome("TypeMismatchError", o, <<>>)

stencil_buffer_set(h, o, buffer) ==
    IF StencilAccepts(h, buffer)
    THEN Outcome("ok", [o EXCEPT !.stencil = buffer],
                 <<CmdAttach(o.id, GL_STENCIL_ATTACHMENT, AttachedId(h, buffer))>>)
    ELSE Outcome("TypeMismatchError", o, <<>>)

Slots == {"color", "depth", "stencil"}

set_attachment(h, o, slot, buffer) ==
    CASE slot = "color" -> color_buffer_set(h, o, buffer)
      [] slot = "depth" -> depth_buffer_set(h, o, buffer)
      [] slot = "stencil" -> stencil_buffer_set(h, o, buffer)

\* one "if x is not None: self.x_buffer = x" of FrameBuffer.__init__,
\* applied to the outcome so far
InitAttach(h, r, slot, buffer) ==
    IF r.err # "ok" \/ buffer = None THEN r
    ELSE LET a == set_attachment(h, r.o, slot, buffer)
         IN Outcome(a.err, a.o, r.cmds \o a.cmds)

FrameBuffer_init(h, id, color, depth, stencil, resizeable) ==
    LET o == [GLObject_init(id, "FrameBuffer") EXCEPT
                  !.shape = NoneShape, !.color = None, !.depth = None,
                  !.stencil = None, !.resizeable = resizeable]
        r0 == Outcome("ok", o, <<>>)
        r1 == InitAttach(h, r0, "color", color)
        r2 == InitAttach(h, r1, "depth", depth)
    IN InitAttach(h, r2, "stencil", stencil)

\* the depth slot looked at before the color slot
FrameBuffer_shape_DepthFirst(h, o) ==
    IF o.depth # None THEN [err |-> "ok", val |-> h[o.depth].shape]
    ELSE IF o.color # None THEN [err |-> "ok", val |-> h[o.color].shape]
    ELSE IF o.stencil # None THEN [err |-> "ok", val |-> h[o.stencil].shape]
    ELSE [err |-> "UndefinedShapeError", val |-> AbsentShape]

\* the shape property: [err, val]
FrameBuffer_shape(h, o) ==
    IF o.color # None THEN [err |-> "ok", val |-> h[o.color].shape]
    ELSE IF o.depth # None THEN [err |-> "ok", val |-> h[o.depth].shape]
    ELSE IF o.stencil # None THEN [err |-> "ok", val |-> h[o.stencil].shape]
    ELSE [err |-> "UndefinedShapeError", val |-> AbsentShape]

\* the attachment resized with a format of the FrameBuffer's choosing
ResizeAttachedAsColor(st, buffer, shape) ==
    IF st.err # "ok" \/ buffer = None THEN st
    ELSE LET r == Buffer_resize(st.h[buffer], shape, FStr("color"))
         IN [err |-> r.err, h |-> [st.h EXCEPT ![buffer] = r.o],
             cmds |-> st.cmds \o r.cmds]

\* the command of the attachment put before the ones already sent
ResizeAttachedFront(st, buffer, shape) ==
    IF st.err # "ok" \/ buffer = None THEN st
    ELSE LET r == Buffer_resize(st.h[buffer], shape, FNone)
         IN [err |-> r.err, h |-> [st.h EXCEPT ![buffer] = r.o],
             cmds |-> r.cmds \o st.cmds]

\* the attachments after one whose resize failed resized all the same
ResizeAttachedOnward(st, buffer, shape) ==
    IF buffer = None THEN st
    ELSE LET r == Buffer_resize(st.h[buffer], shape, FNone)
         IN [err |-> IF st.err # "ok" THEN st.err ELSE r.err,
             h |-> [st.h EXCEPT ![buffer] = r.o],
             cmds |-> st.cmds \o r.cmds]

\* one "if self.x_buffer is not None: self.x_buffer.resize(shape)" of
\* FrameBuffer.resize, applied to [err, h, cmds] so far
ResizeAttached(st, buffer, shape) ==
    IF st.err # "ok" \/ buffer = None THEN st
    ELSE LET r == Buffer_resize(st.h[buffer], shape, FNone)
         IN [err |-> r.err, h |-> [st.h EXCEPT ![buffer] = r.o],
             cmds |-> st.cmds \o r.cmds]

\* the order in which FrameBuffer.resize visits the slots
ResizeOrder(o) == <<o.color, o.depth, o.stencil>>

\* the attachments resized without the two checks
FrameBuffer_resize_Unchecked(h, o, shape) ==
    LET b == ResizeOrder(o)
        s0 == [err |-> "ok", h |-> h, cmds |-> <<>>]
        s1 == ResizeAttached(s0, b[1], shape)
        s2 == ResizeAttached(s1, b[2], shape)
    IN ResizeAttached(s2, b[3], shape)

\* a SIZE command sent for the FrameBuffer as well
FrameBuffer_resize_SizesItself(h, o, shape) ==
    IF ~o.resizeable THEN [err |-> "ImmutableResourceError", h |-> h, cmds |-> <<>>]
    ELSE IF ~ShapeOK(shape) THEN [err |-> "InvalidShapeError", h |-> h, cmds |-> <<>>]
    ELSE LET b == ResizeOrder(o)
             s0 == [err |-> "ok", h |-> h, cmds |-> <<CmdSize(o.id, shape, FNone)>>]
             s1 == ResizeAttached(s0, b[1], shape)
             s2 == ResizeAttached(s1, b[2], shape)
         IN ResizeAttached(s2, b[3], shape)

FrameBuffer_resize(h, o, shape) ==
    IF ~o.resizeable THEN [err |-> "ImmutableResourceError", h |-> h, cmds |-> <<>>]
    ELSE IF ~ShapeOK(shape) THEN [err |-> "InvalidShapeError", h |-> h, cmds |-> <<>>]
    ELSE LET b == ResizeOrder(o)
             s0 == [err |-> "ok", h |-> h, cmds |-> <<>>]
             s1 == ResizeAttached(s0, b[1], shape)
             s2 == ResizeAttached(s1, b[2], shape)
         IN ResizeAttached(s2, b[3], shape)

Modes == {"color", "depth", "stencil"}

\* _check_valid('mode', mode, ['color', 'depth', 'stencil'])
CheckValidMode(mode) == mode \in Modes

SlotOf(o, mode) ==
    CASE mode = "color" -> o.color
      [] mode = "depth" -> o.depth
      [] mode = "stencil" -> o.stencil

\* read: [err, val] with val the region handed to read_pixels
FrameBuffer_read(h, o, mode) ==
    IF ~CheckValidMode(mode) THEN [err |-> "InvalidModeError", val |-> <<>>]
    ELSE LET buffer == SlotOf(o, mode) IN
         IF buffer = None THEN [err |-> "AttributeError", val |-> <<>>]
         ELSE LET shp == h[buffer].shape.v IN
              IF Len(shp) # 2 THEN [err |-> "UnpackError", val |-> <<>>]
              ELSE [err |-> "ok", val |-> <<0, 0, shp[2], shp[1]>>]

\* ------------------------------------------------- scoped activation
\* a call of activate or deactivate on the object with this id
Activation(ev, id) == [ev |-> ev, id |-> id]

\* GLObject.activate and GLObject.deactivate
GLObject_activate(log, o) == Append(log, Activation("activate", o.id))

GLObject_deactivate(log, o) == Append(log, Activation("deactivate", o.id))

\* no exception: the t that __exit__ gets when the body finished normally
NoExc == "ok"

\* __enter__: activate and return self
FrameBuffer_enter(log, o) == GLObject_activate(log, o)

\* deactivate only when the body finished normally
FrameBuffer_exit_OnSuccess(log, o, t) ==
    [log |-> IF t = NoExc THEN GLObject_deactivate(log, o) ELSE log, ret |-> FALSE]

\* __exit__(t, val, trace): deactivate; the return value None is false
FrameBuffer_exit(log, o, t) ==
    [log |-> GLObject_deactivate(log, o), ret |-> FALSE]

\* the with statement on leaving the body with exception t: the exception
\* is raised again unless __exit__ returned a true value
WithLeaves(t, ret) == IF t # NoExc /\ ~ret THEN t ELSE NoExc

\* ---------------------------------------------------------------- state
Refs == 1 .. Len(heap)

RefsOf(classes) == {r \in Refs : heap[r].cls \in classes}

BufferClasses == RenderBufferClasses \cup {"Texture2D"}

\* what the last call was and how it ended
Res(op, self, args, shape, format, mode, err, val) ==
    [op |-> op, self |-> self, args |-> args, shape |-> shape, format |-> format,
     mode |-> mode, err |-> err, val |-> val]

NoCall == Res("none", None, <<>>, AbsentShape, FAbsent, "", "ok", AbsentShape)

\* no with-block entered, nothing activated
NoScope == [open |-> <<>>, log |-> <<>>]

Flag(b) == IF b THEN 1 ELSE 0

\* the CREATE sent after the commands of the class's own __init__
ConstructedCreateLast(st, cls, r) ==
    [idcount |-> st.idcount + 1,
     heap |-> IF r.err = "ok" THEN Append(st.heap, r.o) ELSE st.heap,
     queue |-> GlirCommand(st.queue, r.cmds \o <<CmdCreate(st.idcount + 1, GLIR_TYPE(cls))>>)]

\* a constructor: GLObject.__init__ takes the next id and sends CREATE, then
\* the class's own __init__ runs (r is its outcome); the object exists only
\* if that returns
Constructed(st, cls, r) ==
    [idcount |-> st.idcount + 1,
     heap |-> IF r.err = "ok" THEN Append(st.heap, r.o) ELSE st.heap,
     queue |-> GlirCommand(st.queue, <<CmdCreate(st.idcount + 1, GLIR_TYPE(cls))>> \o r.cmds)]

\* RenderBuffer(shape, format, resizeable) and its deprecated subclasses
NewRenderBuffer(classes, shapes, fmts, flags) ==
    \E cls \in classes, shape \in shapes, format \in fmts, resizeable \in flags :
        LET r == RenderBuffer_init(idcount + 1, cls, shape, format, resizeable)
            st == Constructed([idcount |-> idcount, heap |-> heap, queue |-> queue], cls, r)
        IN /\ Len(st.queue) <= limit
           /\ idcount' = st.idcount
           /\ heap' = st.heap
           /\ queue' = st.queue
           /\ res' = Res("RenderBuffer", IF r.err = "ok" THEN Len(st.heap) ELSE None,
                         <<Flag(resizeable)>>, shape, format, cls, r.err, AbsentShape)
           /\ UNCHANGED <<limit, scope>>

\* buffer.resize(shape, format) on a RenderBuffer or a Texture2D
Resize(buffers, shapes, fmts) ==
    \E b \in buffers, shape \in shapes, format \in fmts :
        LET r == Buffer_resize(heap[b], shape, format) IN
        /\ Len(queue) + Len(r.cmds) <= limit
        /\ heap' = [heap EXCEPT ![b] = r.o]
        /\ queue' = GlirCommand(queue, r.cmds)
        /\ res' = Res("resize", b, <<>>, shape, format, "", r.err, AbsentShape)
        /\ UNCHANGED <<idcount, limit, scope>>

\* buffer.shape
Shape(buffers) ==
    \E b \in buffers :
        /\ res' = Res("shape", b, <<>>, AbsentShape, FAbsent, "", "ok",
                      RenderBuffer_shape(heap[b]))
        /\ UNCHANGED <<idcount, heap, queue, limit, scope>>

\* FrameBuffer(color, depth, stencil, resizeable)
NewFrameBuffer(buffers, flags) ==
    \E color \in buffers, depth \in buffers, stencil \in buffers, resizeable \in flags :
        LET r == FrameBuffer_init(heap, idcount + 1, color, depth, stencil, resizeable)
            st == Constructed([idcount |-> idcount, heap |-> heap, queue |-> queue],
                              "FrameBuffer", r)
        IN /\ Len(st.queue) <= limit
           /\ idcount' = st.idcount
           /\ heap' = st.heap
           /\ queue' = st.queue
           /\ res' = Res("FrameBuffer", IF r.err = "ok" THEN Len(st.heap) ELSE None,
                         <<color, depth, stencil, Flag(resizeable)>>, AbsentShape,
                         FAbsent, "", r.err, AbsentShape)
           /\ UNCHANGED <<limit, scope>>

\* fb.color_buffer = buffer, fb.depth_buffer = buffer, fb.stencil_buffer = buffer
SetAttachment(buffers) ==
    \E fb \in RefsOf({"FrameBuffer"}), slot \in Slots, buffer \in buffers :
        LET r == set_attachment(heap, heap[fb], slot, buffer) IN
        /\ Len(queue) + Len(r.cmds) <= limit
        /\ heap' = [heap EXCEPT ![fb] = r.o]
        /\ queue' = GlirCommand(queue, r.cmds)
        /\ res' = Res("set_attachment", fb, <<buffer>>, AbsentShape, FAbsent, slot,
                      r.err, AbsentShape)
        /\ UNCHANGED <<idcount, limit, scope>>

\* fb.shape
FrameBufferShape ==
    \E fb \in RefsOf({"FrameBuffer"}) :
        LET r == FrameBuffer_shape(heap, heap[fb]) IN
        /\ res' = Res("fb_shape", fb, <<>>, AbsentShape, FAbsent, "", r.err, r.val)
        /\ UNCHANGED <<idcount, heap, queue, limit, scope>>

\* fb.resize(shape)
FrameBufferResize(shapes) ==
    \E fb \in RefsOf({"FrameBuffer"}), shape \in shapes :
        LET r == FrameBuffer_resize(heap, heap[fb], shape) IN
        /\ Len(queue) + Len(r.cmds) <= limit
        /\ heap' = r.h
        /\ queue' = GlirCommand(queue, r.cmds)
        /\ res' = Res("fb_resize", fb, <<>>, shape, FAbsent, "", r.err, AbsentShape)
        /\ UNCHANGED <<idcount, limit, scope>>

\* fb.read(mode)
FrameBufferRead(modes) ==
    \E fb \in RefsOf({"FrameBuffer"}), mode \in modes :
        LET r == FrameBuffer_read(heap, heap[fb], mode) IN
        /\ res' = Res("read", fb, <<>>, AbsentShape, FAbsent, mode, r.err, Tup(r.val))
        /\ UNCHANGED <<idcount, heap, queue, limit, scope>>

\* with fb: ...   the body is entered
Enter ==
    \E fb \in RefsOf({"FrameBuffer"}) :
        /\ Len(scope.open) < MaxOpen
        /\ Len(scope.log) < MaxCalls
        /\ scope' = [open |-> Append(scope.open, fb),
                     log |-> FrameBuffer_enter(scope.log, heap[fb])]
        /\ res' = Res("enter", fb, <<>>, AbsentShape, FAbsent, "", "ok", AbsentShape)
        /\ UNCHANGED <<idcount, heap, queue, limit>>

\* the body of the innermost with-block is left, normally or by exception t
Leave(excs) ==
    \E t \in excs :
        /\ scope.open # <<>>
        /\ LET fb == scope.open[Len(scope.open)]
               r == FrameBuffer_exit(scope.log, heap[fb], t)
           IN /\ scope' = [open |-> SubSeq(scope.open, 1, Len(scope.open) - 1),
                           log |-> r.log]
              /\ res' = Res("exit", fb, <<>>, AbsentShape, FAbsent, t,
                            WithLeaves(t, r.ret), AbsentShape)
        /\ UNCHANGED <<idcount, heap, queue, limit>>

\* ------------------------------------------------- buffers on their own
ShapeArgs == {Tup(<<2, 3>>), Tup(<<1, 2, 4>>), Tup(<<5>>), NoneShape}

FormatArgs == {FNone, FStr("depth"), FInt(GL_RGBA), FStr("rgb")}

Empty == [idcount |-> 0, heap |-> <<>>, queue |-> <<>>]

InitRB ==
    /\ idcount = 0
    /\ heap = <<>>
    /\ queue = <<>>
    /\ res = NoCall
    /\ limit = MaxQueueRB
    /\ scope = NoScope

NextRB ==
    \/ NewRenderBuffer({"RenderBuffer"}, ShapeArgs, FormatArgs, BOOLEAN)
    \/ Resize(Refs, ShapeArgs, FormatArgs)
    \/ Shape(Refs)

SpecRB == InitRB /\ [][NextRB]_vars

\* ------------------------------------------- a FrameBuffer and buffers
\* st after cls(shape, format, resizeable=True)
WithBuffer(st, cls, shape, format) ==
    Constructed(st, cls,
        IF cls = "Texture2D"
        THEN Texture_init(st.idcount + 1, shape, format, TRUE)
        ELSE RenderBuffer_init(st.idcount + 1, cls, shape, format, TRUE))

\* RenderBuffer((4, 4)) (which raises), then
\* t = Texture2D((1, 1), 'color'); c = ColorBuffer((2, 3));
\* d = DepthBuffer((2, 2)); s = StencilBuffer((1, 2, 4));
\* r = RenderBuffer((3, 3), 'color')
Buffers ==
    LET s1 == WithBuffer(Empty, "RenderBuffer", Tup(<<4, 4>>), FNone)
        s2 == WithBuffer(s1, "Texture2D", Tup(<<1, 1>>), FStr("color"))
        s3 == WithBuffer(s2, "ColorBuffer", Tup(<<2, 3>>), FOmitted)
        s4 == WithBuffer(s3, "DepthBuffer", Tup(<<2, 2>>), FOmitted)
        s5 == WithBuffer(s4, "StencilBuffer", Tup(<<1, 2, 4>>), FOmitted)
    IN WithBuffer(s5, "RenderBuffer", Tup(<<3, 3>>), FStr("color"))

BufferRefs == 1 .. Len(Buffers.heap)

\* the scene: the buffers, then fb = FrameBuffer(color, depth, stencil, resizeable)
Scene(color, depth, stencil, resizeable) ==
    Constructed(Buffers, "FrameBuffer",
        FrameBuffer_init(Buffers.heap, Buffers.idcount + 1, color, depth, stencil, resizeable))

\* FrameBuffer(), FrameBuffer(c, d, s), FrameBuffer(t, t, resizeable=False)
SceneArgs == {<<None, None, None, TRUE>>, <<2, 3, 4, TRUE>>, <<1, 1, None, FALSE>>}

Init ==
    \E a \in SceneArgs :
        LET st == Scene(a[1], a[2], a[3], a[4]) IN
        /\ idcount = st.idcount
        /\ heap = st.heap
        /\ queue = st.queue
        /\ res = NoCall
        /\ limit = Len(st.queue) + MaxExtra
        /\ scope = NoScope

FBShapeArgs == {Tup(<<2, 3>>), Tup(<<1, 2, 4>>), Tup(<<5>>)}

ModeArgs == {"color", "depth", "stencil", "alpha"}

Next ==
    \/ SetAttachment(BufferRefs \cup {None})
    \/ Resize(RefsOf({"ColorBuffer"}), {Tup(<<3, 1>>)}, {FNone})
    \/ FrameBufferShape
    \/ FrameBufferResize(FBShapeArgs)
    \/ FrameBufferRead(ModeArgs)

Spec == Init /\ [][Next]_vars

\* ------------------------------------------ objects built and attached
\* ColorBuffer((2, 3)), StencilBuffer((2, 3)) and the same with format=None
InitNew ==
    /\ idcount = 0
    /\ heap = <<>>
    /\ queue = <<>>
    /\ res = NoCall
    /\ limit = MaxQueueNew
    /\ scope = NoScope

NextNew ==
    \/ NewRenderBuffer({"ColorBuffer", "StencilBuffer"}, {Tup(<<2, 3>>)},
                       {FOmitted, FNone}, {TRUE})
    \/ NewFrameBuffer(RefsOf(BufferClasses) \cup {None}, {TRUE})
    \/ SetAttachment(RefsOf(BufferClasses) \cup {None})

SpecNew == InitNew /\ [][NextNew]_vars

\* ------------------------------------------ a FrameBuffer as a scope
ExcArgs == {NoExc, "ValueError"}

NextScope ==
    \/ Enter
    \/ Leave(ExcArgs)
    \/ FrameBufferRead(ModeArgs)

SpecScope == Init /\ [][NextScope]_vars

\* ------------------------- a FrameBuffer with a texture of fixed size
\* the buffers, then n = Texture2D((1, 1), 'color', resizeable=False)
BuffersAndFixed ==
    Constructed(Buffers, "Texture2D",
        Texture_init(Buffers.idcount + 1, Tup(<<1, 1>>), FStr("color"), FALSE))

Fixed == Len(BuffersAndFixed.heap)

\* fb = FrameBuffer(color, depth, stencil)
SceneFixed(color, depth, stencil) ==
    Constructed(BuffersAndFixed, "FrameBuffer",
        FrameBuffer_init(BuffersAndFixed.heap, BuffersAndFixed.idcount + 1,
                         color, depth, stencil, TRUE))

\* FrameBuffer(c, n, s), FrameBuffer(n, d, s), FrameBuffer(t, n), FrameBuffer(c, d, s)
FixedArgs ==
    {<<2, Fixed, 4>>, <<Fixed, 3, 4>>, <<1, Fixed, None>>, <<2, 3, 4>>}

InitPartial ==
    \E a \in FixedArgs :
        LET st == SceneFixed(a[1], a[2], a[3]) IN
        /\ idcount = st.idcount
        /\ heap = st.heap
        /\ queue = st.queue
        /\ res = NoCall
        /\ limit = Len(st.queue) + MaxExtra
        /\ scope = NoScope

NextPartial ==
    \/ SetAttachment({Fixed, None})
    \/ FrameBufferShape
    \/ FrameBufferResize(FBShapeArgs)

SpecPartial == InitPartial /\ [][NextPartial]_vars

\* ---------------------------------------- the arguments of a RenderBuffer
\* (2, 3), (0, 3), (-1, 2, 4), (2,)
ValShapeArgs == {Tup(<<2, 3>>), Tup(<<0, 3>>), Tup(<<-1, 2, 4>>), Tup(<<2>>)}

\* None, the three names, an unknown name, an enum, ['depth']
ValFormatArgs ==
    {FNone, FStr("color"), FStr("depth"), FStr("stencil"), FStr("rgb"),
     FInt(GL_RGBA), FList("depth")}

\* the buffers of the scene; r = RenderBuffer((3, 3), 'color') is resized
InitVal ==
    /\ idcount = Buffers.idcount
    /\ heap = Buffers.heap
    /\ queue = Buffers.queue
    /\ res = NoCall
    /\ limit = Len(Buffers.queue) + MaxArgCmds
    /\ scope = NoScope

NextVal ==
    \/ NewRenderBuffer({"RenderBuffer"}, ValShapeArgs, ValFormatArgs, {TRUE})
    \/ Resize(RefsOf({"RenderBuffer"}), ValShapeArgs, ValFormatArgs)

SpecVal == InitVal /\ [][NextVal]_vars

\* ================================================================ claims
\* the object a call was made on, and the buffer a setter was given
Self == heap[res.self]

Given == res.args[1]

\* C1: the FrameBuffer shape query returns the shape of the color attachment
\* when the color slot is non-empty, otherwise that of the depth attachment
\* when that slot is non-empty, otherwise that of the stencil attachment,
\* and raises the undefined-shape error exactly when all three are empty.
C1_ShapeByPriority ==
    res.op = "fb_shape" =>
        /\ Self.color # None => res.err = "ok" /\ res.val = heap[Self.color].shape
        /\ Self.color = None /\ Self.depth # None =>
               res.err = "ok" /\ res.val = heap[Self.depth].shape
        /\ Self.color = None /\ Self.depth = None /\ Self.stencil # None =>
               res.err = "ok" /\ res.val = heap[Self.stencil].shape
        /\ res.err = "UndefinedShapeError" <=>
               Self.color = None /\ Self.depth = None /\ Self.stencil = None

\* a query on a FrameBuffer whose color and depth attachments differ in shape
C1_Witness ==
    /\ res.op = "fb_shape"
    /\ Self.color # None /\ Self.depth # None /\ Self.stencil # None
    /\ heap[Self.color].shape # heap[Self.depth].shape
    /\ res.val = heap[Self.color].shape

\* C2: the color and the depth slot accept any RenderBuffer or Texture, the
\* stencil slot any RenderBuffer; a RenderBuffer created with format 'color'
\* is attached to the color slot without error.
C2_AcceptsByKind ==
    /\ res.op = "set_attachment"
    /\ Given # None
    /\ \/ res.mode \in {"color", "depth"} /\ heap[Given].cls \in BufferClasses
       \/ res.mode = "stencil" /\ heap[Given].cls \in RenderBufferClasses
    => res.err = "ok"

\* C3: giving the stencil slot an object that is no RenderBuffer raises the
\* type-mismatch error, the slot holds what it held before and no command is
\* appended.
C3_StencilRejects ==
    [][ /\ res'.op = "set_attachment"
        /\ res'.mode = "stencil"
        /\ res'.args[1] # None
        /\ heap[res'.args[1]].cls \notin RenderBufferClasses
        => /\ res'.err = "TypeMismatchError"
           /\ heap'[res'.self].stencil = heap[res'.self].stencil
           /\ heap' = heap
           /\ queue' = queue ]_vars

\* a Texture2D was refused by a stencil slot that holds a StencilBuffer
C3_Witness ==
    /\ res.op = "set_attachment"
    /\ res.mode = "stencil"
    /\ Given # None
    /\ heap[Given].cls = "Texture2D"
    /\ res.err = "TypeMismatchError"
    /\ Self.stencil # None

\* the (y, x) part of a shape
YX(shape) == Tup(SubSeq(shape.v, 1, 2))

\* a format argument resize accepts by itself
ValidFormat(format) ==
    format.t = "int" \/ (format.t = "str" /\ format.s \in {"color", "depth", "stencil"})

\* C4: a RenderBuffer can be constructed with resizeable=False and a valid
\* shape and format; every later resize of it raises the immutable-resource
\* error and leaves the shape the constructor stored.
C4_NotResizeable ==
    [][ /\ res'.op = "RenderBuffer" /\ res'.args = <<0>>
           /\ ShapeOK(res'.shape) /\ ValidFormat(res'.format)
           => res'.err = "ok"
        /\ res'.op = "resize" /\ ~heap[res'.self].resizeable
           => res'.err = "ImmutableResourceError"
              /\ heap'[res'.self].shape = heap[res'.self].shape ]_vars

\* C5: after a resize with a shape of 2 or 3 elements the shape query returns
\* the 2-element (y, x) shape; the stored shape never has 3 elements.
C5_ShapeIsYX ==
    /\ res.op = "resize" /\ res.err = "ok" =>
           RenderBuffer_shape(Self) = YX(res.shape)
    /\ res.op = "shape" => Len(res.val.v) = 2

\* the attachments of a FrameBuffer, slot by slot, and those that are there
Attachments(o) == <<o.color, o.depth, o.stencil>>

Attached(o) == {o.color, o.depth, o.stencil} \ {None}

\* the commands of queue' that queue did not have
Sent(q, q2) == SubSeq(q2, Len(q) + 1, Len(q2))

\* C6: after a successful resize(shape) of a FrameBuffer with at least one
\* attachment every attached object has that shape and the format it had,
\* and the FrameBuffer shape query returns the new shape.
C6_ResizeReachesAll ==
    [][ /\ res'.op = "fb_resize" /\ res'.err = "ok"
        /\ Attached(heap[res'.self]) # {}
        => /\ \A b \in Attached(heap'[res'.self]) :
                  /\ heap'[b].shape = res'.shape
                  /\ heap'[b].format = heap[b].format
           /\ FrameBuffer_shape(heap', heap'[res'.self]) =
                  [err |-> "ok", val |-> res'.shape] ]_vars

\* a FrameBuffer with three attachments of different formats was resized
C6_Witness ==
    /\ res.op = "fb_resize" /\ res.err = "ok"
    /\ Self.color # None /\ Self.depth # None /\ Self.stencil # None
    /\ heap[Self.color].format # heap[Self.depth].format
    /\ heap[Self.depth].format # heap[Self.stencil].format
    /\ heap[Self.stencil].shape = res.shape

\* C7: a resize or a construction with the format left out uses the format
\* set by the last successful resize, so that the stored format and the one
\* in the SIZE command are unchanged; when none was ever set the call raises
\* the missing-format error.
C7_FormatReused ==
    [][ /\ res'.op = "resize" /\ res'.format = FNone /\ res'.err = "ok"
           => /\ heap'[res'.self].format = heap[res'.self].format
              /\ queue'[Len(queue')].format = heap[res'.self].format
        /\ res'.op = "RenderBuffer" /\ res'.format = FNone
           /\ res'.args = <<1>> /\ ShapeOK(res'.shape)
           => res'.err = "MissingFormatError" ]_vars

\* the ids of the objects in a sequence of references, None left out
RECURSIVE IdsOf(_, _)
IdsOf(h, refs) ==
    IF refs = <<>> THEN <<>>
    ELSE IF refs[1] = None THEN IdsOf(h, Tail(refs))
         ELSE <<h[refs[1]].id>> \o IdsOf(h, Tail(refs))

\* C8: the queue holds the commands in the order of the calls that sent
\* them: a call leaves the commands before it in place, and the command of
\* the k-th successful mutation is the k-th one added.
C8_CallOrder ==
    [][ /\ Len(queue') >= Len(queue)
        /\ SubSeq(queue', 1, Len(queue)) = queue
        /\ res'.op \in {"resize", "set_attachment"} /\ res'.err = "ok"
           => /\ Len(Sent(queue, queue')) = 1
              /\ queue'[Len(queue')].op =
                     (IF res'.op = "resize" THEN "SIZE" ELSE "ATTACH")
              /\ queue'[Len(queue')].id = heap[res'.self].id
        /\ res'.op = "fb_resize" /\ res'.err = "ok"
           => LET sent == Sent(queue, queue') IN
              /\ [i \in 1 .. Len(sent) |-> sent[i].id] =
                     IdsOf(heap, Attachments(heap[res'.self]))
              /\ \A i \in 1 .. Len(sent) : sent[i].op = "SIZE" ]_vars

\* three commands that name one buffer, in the order of the calls: its own
\* resize, the ATTACH of it, the resize of the FrameBuffer it is attached to
C8_Witness ==
    /\ res.op = "fb_resize" /\ res.err = "ok"
    /\ Len(queue) >= 3
    /\ queue[Len(queue)].op = "SIZE"
    /\ queue[Len(queue) - 1].op = "ATTACH"
    /\ queue[Len(queue) - 1].att = queue[Len(queue)].id
    /\ queue[Len(queue) - 2].op = "SIZE"
    /\ queue[Len(queue) - 2].id = queue[Len(queue)].id
    /\ queue[Len(queue) - 2].shape # queue[Len(queue)].shape

\* the target tag of a slot
Tag(slot) ==
    CASE slot = "color" -> GL_COLOR_ATTACHMENT0
      [] slot = "depth" -> GL_DEPTH_ATTACHMENT
      [] slot = "stencil" -> GL_STENCIL_ATTACHMENT

\* the object id in the last ATTACH of a FrameBuffer id for a tag; 0 if none
LastAttached(id, tag) ==
    LET I == {i \in 1 .. Len(queue) :
                 queue[i].op = "ATTACH" /\ queue[i].id = id /\ queue[i].target = tag}
    IN IF I = {} THEN 0
       ELSE queue[CHOOSE i \in I : \A j \in I : j <= i].att

\* C9: a successful set_attachment updates its slot, leaves the other two,
\* and appends exactly one ATTACH with the FrameBuffer's id, the slot's tag
\* and the id of the object, 0 for None; so each slot always holds the object
\* of the last ATTACH for its tag.
C9_AttachCommand ==
    /\ [][ res'.op = "set_attachment" /\ res'.err = "ok"
           => LET fb == res'.self
                  b == res'.args[1]
              IN /\ SlotOf(heap'[fb], res'.mode) = b
                 /\ \A slot \in Slots \ {res'.mode} :
                        SlotOf(heap'[fb], slot) = SlotOf(heap[fb], slot)
                 /\ queue' = Append(queue,
                        CmdAttach(heap[fb].id, Tag(res'.mode),
                                  IF b = None THEN 0 ELSE heap[b].id)) ]_vars
    /\ [](\A fb \in RefsOf({"FrameBuffer"}), slot \in Slots :
              LastAttached(heap[fb].id, Tag(slot)) =
                  (IF SlotOf(heap[fb], slot) = None THEN 0
                   ELSE heap[SlotOf(heap[fb], slot)].id))

\* a slot was detached after it had held an object
C9_Witness ==
    /\ res.op = "set_attachment" /\ res.err = "ok"
    /\ Given = None
    /\ queue[Len(queue)].att = 0
    /\ \E i \in 1 .. Len(queue) - 1 :
           /\ queue[i].op = "ATTACH"
           /\ queue[i].id = Self.id
           /\ queue[i].target = queue[Len(queue)].target
           /\ queue[i].att # 0

\* C10: read on an empty slot raises the no-attachment error, asks for no
\* readback and changes neither the slots nor the queue; a mode that is none
\* of color, depth, stencil is refused before a slot is looked at.
C10_ReadEmptySlot ==
    [][ /\ res'.op = "read" /\ res'.mode \in Modes
           /\ SlotOf(heap[res'.self], res'.mode) = None
           => /\ res'.err = "NoAttachmentError"
              /\ res'.val = Tup(<<>>)
              /\ heap' = heap /\ queue' = queue
        /\ res'.op = "read" /\ res'.mode \notin Modes
           => res'.err = "InvalidModeError" /\ heap' = heap /\ queue' = queue ]_vars


\* the ids a command refers to: its target and, for ATTACH, the object named
Mentions(c) ==
    {c.id} \cup (IF c.op = "ATTACH" /\ c.att # 0 THEN {c.att} ELSE {})

\* the position of the first command of q that refers to id
FirstMention(q, id) ==
    CHOOSE i \in 1 .. Len(q) :
        /\ id \in Mentions(q[i])
        /\ \A j \in 1 .. i - 1 : id \notin Mentions(q[j])

\* C11: a successful RenderBuffer construction appends CREATE and then SIZE
\* for the new object's id; and for every id the queue refers to, the first
\* command that refers to it is its CREATE, so the CREATE precedes every SIZE
\* of the object and every ATTACH that names it.
C11_CreateFirst ==
    /\ [][ res'.op = "RenderBuffer" /\ res'.err = "ok"
           => LET o == heap'[res'.self] IN
              /\ \A i \in 1 .. Len(queue) : o.id \notin Mentions(queue[i])
              /\ queue' = queue \o <<CmdCreate(o.id, "RenderBuffer"),
                                     CmdSize(o.id, o.shape, o.format)>> ]_vars
    /\ [](\A i \in 1 .. Len(queue) : \A id \in Mentions(queue[i]) :
              LET c == queue[FirstMention(queue, id)]
              IN c.op = "CREATE" /\ c.id = id)

\* a buffer was constructed, a FrameBuffer constructed after it, and the
\* buffer attached: CREATE, SIZE and ATTACH of the buffer in that order
C11_Witness ==
    /\ res.op = "set_attachment" /\ res.err = "ok" /\ Given # None
    /\ \E i, j \in 1 .. Len(queue) - 1 :
           /\ i < j
           /\ queue[i].op = "CREATE" /\ queue[i].id = heap[Given].id
           /\ queue[j].op = "SIZE" /\ queue[j].id = heap[Given].id
    /\ queue[Len(queue)].att = heap[Given].id

\* how often the log has this call for this id
Calls(log, ev, id) ==
    Cardinality({i \in 1 .. Len(log) : log[i] = Activation(ev, id)})

\* how many open with-blocks are on this FrameBuffer
OpenOn(open, fb) == Cardinality({i \in 1 .. Len(open) : open[i] = fb})

\* C12: leaving the scope of a FrameBuffer deactivates it exactly once,
\* when the body finished normally and when it raised, and the exception of
\* the body is raised again; so each activation of a scope that was left is
\* matched by one deactivation.
C12_ScopeDeactivates ==
    /\ [][ res'.op = "exit"
           => /\ scope'.log = Append(scope.log,
                      Activation("deactivate", heap[res'.self].id))
              /\ scope'.open = SubSeq(scope.open, 1, Len(scope.open) - 1)
              /\ res'.err = res'.mode ]_vars
    /\ [](\A fb \in RefsOf({"FrameBuffer"}) :
              Calls(scope.log, "activate", heap[fb].id) =
                  Calls(scope.log, "deactivate", heap[fb].id) + OpenOn(scope.open, fb))

\* an inner scope was left by an exception while the outer one is open
C12_Witness ==
    /\ res.op = "exit" /\ res.err = "ValueError"
    /\ Len(scope.open) = 1
    /\ Len(scope.log) >= 3
    /\ scope.log[Len(scope.log)] = Activation("deactivate", Self.id)
    /\ scope.log[Len(scope.log) - 1] = Activation("activate", Self.id)

\* C13: when the resize of an attachment fails, the attachments before it
\* in the order color, depth, stencil have the new shape and their SIZE
\* commands are in the queue, the failing attachment and the ones after it
\* are as they were, and the FrameBuffer resize fails with that error.
C13_PartialResize ==
    [][ res'.op = "fb_resize" /\ heap[res'.self].resizeable /\ ShapeOK(res'.shape)
        => LET b == Attachments(heap[res'.self])
               Fails(k) == /\ b[k] # None
                           /\ Buffer_resize(heap[b[k]], res'.shape, FNone).err # "ok"
           IN \A k \in 1 .. 3 :
                  Fails(k) /\ (\A j \in 1 .. k - 1 : ~Fails(j))
                  => /\ res'.err = Buffer_resize(heap[b[k]], res'.shape, FNone).err
                     /\ \A j \in 1 .. k - 1 :
                            b[j] # None => heap'[b[j]].shape = res'.shape
                     /\ \A j \in k .. 3 : b[j] # None => heap'[b[j]] = heap[b[j]]
                     /\ SubSeq(queue', 1, Len(queue)) = queue
                     /\ LET sent == Sent(queue, queue') IN
                        /\ [i \in 1 .. Len(sent) |-> sent[i].id] =
                               IdsOf(heap, SubSeq(b, 1, k - 1))
                        /\ \A i \in 1 .. Len(sent) :
                               sent[i].op = "SIZE" /\ sent[i].shape = res'.shape ]_vars

\* the resize failed at the depth attachment: the color attachment has the
\* new shape, the stencil attachment after it has not
C13_Witness ==
    /\ res.op = "fb_resize" /\ res.err = "ImmutableResourceError"
    /\ Self.resizeable
    /\ Self.color # None /\ Self.depth # None /\ Self.stencil # None
    /\ heap[Self.color].shape = res.shape
    /\ queue[Len(queue)] = CmdSize(heap[Self.color].id, res.shape, heap[Self.color].format)
    /\ heap[Self.depth].shape # res.shape
    /\ heap[Self.stencil].shape # res.shape

\* C14: resize on a FrameBuffer built with resizeable=False, or with a shape
\* that is no tuple of 2 or 3 elements, fails before an attachment is
\* touched: every object is as it was and no command is appended.
C14_ResizeRefused ==
    [][ res'.op = "fb_resize"
        /\ (~heap[res'.self].resizeable \/ ~ShapeOK(res'.shape))
        => /\ res'.err = (IF ~heap[res'.self].resizeable
                          THEN "ImmutableResourceError" ELSE "InvalidShapeError")
           /\ \A b \in Attached(heap[res'.self]) :
                  heap'[b].shape = heap[b].shape /\ heap'[b].format = heap[b].format
           /\ heap' = heap
           /\ queue' = queue ]_vars

\* a FrameBuffer that is not resizeable, with attachments that are, refused
\* a shape that the attachments would have taken
C14_Witness ==
    /\ res.op = "fb_resize" /\ res.err = "ImmutableResourceError"
    /\ ~Self.resizeable
    /\ ShapeOK(res.shape)
    /\ Attached(Self) # {}
    /\ \A b \in Attached(Self) : heap[b].resizeable /\ heap[b].shape # res.shape

\* C15: a resize of a RenderBuffer that fails leaves the stored shape and
\* the stored format as they were and appends no SIZE command; the same for
\* the resize a constructor makes, after which only the CREATE is there.
C15_FailedResizeNoEffect ==
    [][ /\ res'.op = "resize" /\ res'.err # "ok"
           => /\ heap'[res'.self].shape = heap[res'.self].shape
              /\ heap'[res'.self].format = heap[res'.self].format
              /\ heap' = heap
              /\ queue' = queue
        /\ res'.op = "RenderBuffer" /\ res'.err # "ok"
           => /\ heap' = heap
              /\ \A i \in 1 .. Len(Sent(queue, queue')) :
                     Sent(queue, queue')[i].op # "SIZE" ]_vars

\* a resize with a shape the buffer does not have and a format name that is
\* not known failed
C15_Witness ==
    /\ res.op = "resize" /\ res.err = "InvalidFormatError"
    /\ ShapeOK(res.shape)
    /\ Self.shape # res.shape
    /\ queue[Len(queue)].op = "SIZE"
    /\ queue[Len(queue)].id = Self.id
    /\ queue[Len(queue)].shape = Self.shape

\* a tuple of 2 or 3 positive integers
PositiveShape(shape) ==
    /\ shape.t = "tuple"
    /\ Len(shape.v) \in {2, 3}
    /\ \A i \in 1 .. Len(shape.v) : shape.v[i] > 0

\* the numeric code the claim gives for a format name
NameCode(s) ==
    CASE s = "color" -> GL_RGBA
      [] s = "depth" -> GL_DEPTH_COMPONENT16
      [] s = "stencil" -> GL_STENCIL_INDEX8

\* C16: a construction or resize of a RenderBuffer succeeds only with the
\* format 'color', 'depth', 'stencil', a numeric code, or None when a
\* format is set, and every other format is refused; after a successful
\* call the stored format and the one in the SIZE command are a numeric
\* code, that of the name when a name was given.
C16_FormatValidated ==
    [][ res'.op \in {"resize", "RenderBuffer"} /\ res'.err = "ok"
        /\ PositiveShape(res'.shape)
        => LET o == heap'[res'.self] IN
           /\ \/ ValidFormat(res'.format)
              \/ /\ res'.format = FNone
                 /\ res'.op = "resize"
                 /\ heap[res'.self].format.t = "int"
           /\ o.format.t = "int"
           /\ queue'[Len(queue')].op = "SIZE"
           /\ queue'[Len(queue')].format = o.format
           /\ res'.format.t = "str" => o.format = FInt(NameCode(res'.format.s)) ]_vars

C18_ReadRegion ==
    [][ res'.op = "read" /\ res'.mode \in Modes
        /\ SlotOf(heap[res'.self], res'.mode) # None
        => LET shp == heap[SlotOf(heap[res'.self], res'.mode)].shape.v IN
           /\ res'.err = "ok"
           /\ res'.val = Tup(<<0, 0, shp[2], shp[1]>>)
           /\ heap' = heap
           /\ queue' = queue ]_vars

\* the last SIZE command of q for id; one without payload when there is none
LastSize(q, id) ==
    LET I == {i \in 1 .. Len(q) : q[i].op = "SIZE" /\ q[i].id = id}
    IN IF I = {} THEN CmdSize(id, AbsentShape, FAbsent)
       ELSE q[CHOOSE i \in I : \A j \in I : j <= i]

\* C19: a successful resize of a RenderBuffer appends exactly one SIZE
\* command, for the buffer's own id, with the shape and the format the
\* buffer then stores, the format resolved (a name to its code, None to the
\* format set before); and in every state the shape and format a
\* RenderBuffer stores are those of the last SIZE command for its id.
C19_StateMatchesLog ==
    /\ [][ res'.op = "resize" /\ res'.err = "ok"
           => LET o == heap'[res'.self] IN
              /\ queue' = Append(queue, CmdSize(heap[res'.self].id, o.shape, o.format))
              /\ o.shape = res'.shape
              /\ res'.format.t = "str" => o.format = FInt(NameCode(res'.format.s))
              /\ res'.format.t = "int" => o.format = res'.format
              /\ res'.format = FNone => o.format = heap[res'.self].format ]_vars
    /\ [](\A r \in RefsOf(RenderBufferClasses) :
              /\ LastSize(queue, heap[r].id).shape = heap[r].shape
              /\ LastSize(queue, heap[r].id).format = heap[r].format)

\* a buffer whose format was changed and that was then resized with the
\* format left out: the last SIZE has the new shape and the format before
C19_Witness ==
    /\ res.op = "resize" /\ res.err = "ok" /\ res.format = FNone
    /\ \E i \in 1 .. Len(queue) - 1 :
           /\ queue[i].op = "SIZE" /\ queue[i].id = Self.id
           /\ queue[i].shape # Self.shape
           /\ queue[i].format = Self.format
    /\ \E i, j \in 1 .. Len(queue) - 1 :
           /\ i < j
           /\ queue[i].op = "SIZE" /\ queue[j].op = "SIZE"
           /\ queue[i].id = Self.id /\ queue[j].id = Self.id
           /\ queue[i].format # queue[j].format
    /\ LastSize(queue, Self.id) = queue[Len(queue)]

\* C20: a resize of a FrameBuffer leaves the FrameBuffer object, its three
\* slots included, as it was and appends no command for the FrameBuffer's
\* id; what it appends are SIZE commands of attached objects, on success one
\* per slot that is not empty in the order color, depth, stencil; with no
\* attachment it succeeds and appends nothing.
C20_ResizeFrame ==
    [][ res'.op = "fb_resize"
        => LET fb == res'.self
               sent == Sent(queue, queue')
           IN /\ heap'[fb] = heap[fb]
              /\ Attachments(heap'[fb]) = Attachments(heap[fb])
              /\ SubSeq(queue', 1, Len(queue)) = queue
              /\ \A i \in 1 .. Len(sent) :
                     /\ sent[i].op = "SIZE"
                     /\ sent[i].id # heap[fb].id
                     /\ \E b \in Attached(heap[fb]) : sent[i].id = heap[b].id
              /\ res'.err = "ok"
                 => [i \in 1 .. Len(sent) |-> sent[i].id] =
                        IdsOf(heap, Attachments(heap[fb]))
              /\ Attached(heap[fb]) = {} /\ heap[fb].resizeable /\ ShapeOK(res'.shape)
                 => res'.err = "ok" /\ queue' = queue ]_vars

\* a FrameBuffer that has no attachment since it was built was resized
C20_Witness ==
    /\ res.op = "fb_resize" /\ res.err = "ok"
    /\ Attached(Self) = {}
    /\ queue[Len(queue)] = CmdCreate(Self.id, "FrameBuffer")

====
